---- MODULE Spec2Model ----
(***************************************************************************)
(* Model of the navigation guidance engine (src/hooks/useNavigationEngine) *)
(* as it runs inside its host component (NavigationScreen).                *)
(*                                                                         *)
(* Geometry.  Every coordinate of the model lies on the equator            *)
(* (latitude 0) and its longitude is a whole number of "metre arcs": one   *)
(* unit is the angle 180 / (pi * 6371000) degrees, i.e. one metre of       *)
(* equatorial arc.  On that line the haversine formula of                  *)
(* calculateDistance reduces exactly to R * |dLon| (in radians), which is  *)
(* |lon2 - lon1| units, and calculateBearing reduces to atan2(+-sin,0) =   *)
(* 90 (east) or 270 (west), and atan2(0,0) = 0 for identical points.       *)
(*                                                                         *)
(* JavaScript values that may be null or undefined are records             *)
(* [t |-> "number" | "null" | "undefined", v |-> Int].                     *)
(*                                                                         *)
(* Granularity.  One step of the model is one JavaScript task together     *)
(* with the React render and effect flush it causes: the setState calls of *)
(* one callback are applied as one batch, the component re-renders, and    *)
(* the tracking effect is cleaned up and re-run when its dependencies      *)
(* changed.                                                                *)
(***************************************************************************)
EXTENDS Integers, Sequences, FiniteSets, TLC

VARIABLES
    pathNodes,            \* hook input: the waypoint list of the current render
    enabled,              \* hook input: the enabled flag of the current render
    mounted,              \* whether the host component is mounted
    currentLocation,      \* useState: longitude of the last fix, or null
    nearestNodeIndex,     \* useState: 0-based index, or null
    distance,             \* useState
    relativeBearing,      \* useState
    userHeading,          \* useState: number or null
    movementInstruction,  \* useState
    arrivednextNode,      \* useState
    arriveAtDestination,  \* useState
    watchIdRef,           \* useRef: watch id, or null
    subscriptions,        \* Geolocation: the active watches and their callbacks
    inflight,             \* fixes emitted by the platform, not yet delivered
    geoCalls,             \* Geolocation calls made by the last step
    lastEvent,            \* what the last step was
    arrivedBefore,        \* history: arriveAtDestination before the last step
    roundTrip             \* history: "none", then "paused" (disabled after a
                          \* processed fix), "resumed" (enabled again with the
                          \* same list), "refreshed" (the last step processed
                          \* a fix of the new subscription)

\* NavigationScreen
VARIABLES
    navigationActive,          \* useState
    permissionGranted,         \* useState
    showFinalArrivalModal,     \* useState
    hasTriggeredFinalArrival,  \* useState
    alertShown,                \* the 'Destination Reached' alert is on display
    finalArrivalOpenings       \* history: how often the final-arrival trigger
                               \* opened the modal

navState == <<currentLocation, nearestNodeIndex, distance, relativeBearing,
              userHeading, movementInstruction, arrivednextNode,
              arriveAtDestination>>

engineVars == <<pathNodes, enabled, mounted, currentLocation,
                nearestNodeIndex, distance, relativeBearing, userHeading,
                movementInstruction, arrivednextNode, arriveAtDestination,
                watchIdRef, subscriptions, inflight, geoCalls, lastEvent,
                arrivedBefore, roundTrip>>

\* useRoutePath
VARIABLES
    routeId,          \* hook input
    routePathNodes,   \* useState pathNodes
    coordinates,      \* useState
    instructions,     \* useState
    loading,          \* useState
    error,            \* useState: message or ""  (null)
    pending           \* calls of getPathNodesByRouteId not yet settled: the
                      \* routeId each was made with

routeVars == <<routeId, routePathNodes, coordinates, instructions, loading,
               error, pending>>

\* navigationService.resolveRoute
VARIABLES
    resolveCall,      \* the arguments of the call in progress or returned last
    allRoutes,        \* what getRoutes settled with for that call
    resolveResult     \* what the call returned

resolveVars == <<resolveCall, allRoutes, resolveResult>>

\* The in-memory log
VARIABLES
    logs,             \* the module variable logs: entries, newest first
    logClock          \* the number of pushLog calls so far (the timestamp of
                      \* the next entry)

logVars == <<logs, logClock>>

\* Everything outside the engine and NavigationScreen.
otherVars == <<routeVars, resolveVars, logVars>>

screenVars == <<navigationActive, permissionGranted, showFinalArrivalModal,
                hasTriggeredFinalArrival, alertShown, finalArrivalOpenings>>

\* Everything outside the engine.
restVars == <<screenVars, otherVars>>

vars == <<engineVars, restVars>>

\* The useState initial values of NavigationScreen.
ScreenInit ==
    /\ navigationActive = TRUE
    /\ permissionGranted = FALSE
    /\ showFinalArrivalModal = FALSE
    /\ hasTriggeredFinalArrival = FALSE
    /\ alertShown = FALSE
    /\ finalArrivalOpenings = 0

\* useRoutePath mounted with an empty routeId, after its first effect.
RouteInit ==
    /\ routeId = ""
    /\ routePathNodes = <<>>
    /\ coordinates = <<>>
    /\ instructions = <<>>
    /\ loading = FALSE
    /\ error = "Invalid route ID"
    /\ pending = <<>>

\* No call of resolveRoute yet.
ResolveInit ==
    /\ resolveCall = [state |-> "none", hasLocation |-> FALSE,
                      selectedBuildingId |-> "", preferShortestTime |-> TRUE]
    /\ allRoutes = [ok |-> TRUE, routes |-> <<>>]
    /\ resolveResult = [t |-> "none", id |-> ""]

\* let logs = []
LogInit ==
    /\ logs = <<>>
    /\ logClock = 0

\* The initial state of everything outside the engine.
RestInit == ScreenInit /\ RouteInit /\ ResolveInit /\ LogInit

----------------------------------------------------------------------------
(* JavaScript values *)

Null == [t |-> "null", v |-> 0]
Undefined == [t |-> "undefined", v |-> 0]
Num(n) == [t |-> "number", v |-> n]
IsNum(x) == x.t = "number"

----------------------------------------------------------------------------
(* Bounds and inputs *)

MaxInFlight == 1      \* fixes emitted and not yet delivered
MaxWatches == 2       \* watch ids the platform hands out at one time

\* Longitudes of the fixes, in metre arcs east of the first waypoint.
FixLongitudes == {0, 96, 105, 225}

\* coords.heading as the platform reports it.
FixHeadings == {Undefined, Null, Num(-1), Num(0), Num(360)}

ErrorMessages == {"timeout", "denied"}

PlainNode(lon) ==
    [longitude |-> lon, instructionText |-> "", hasLandmark |-> FALSE,
     landmarkName |-> "", hasFloor |-> FALSE, floor |-> 0, isIndoor |-> FALSE]

\* The waypoint lists the host passes: none, the two-waypoint route of the
\* specification's scenario (111 m apart), and a three-waypoint route.
PathChoices ==
    { <<>>,
      <<PlainNode(0), PlainNode(111)>>,
      <<PlainNode(0), PlainNode(111), PlainNode(230)>> }

----------------------------------------------------------------------------
(* Pure functions *)

Abs(x) == IF x < 0 THEN -x ELSE x

\* Mutant of calculateDistance: the signed difference of the longitudes.
calculateDistanceSigned(lat1, lon1, lat2, lon2) == lon2 - lon1

calculateDistance(lat1, lon1, lat2, lon2) == Abs(lon2 - lon1)

calculateBearing(lat1, lon1, lat2, lon2) ==
    IF lon2 > lon1 THEN 90
    ELSE IF lon2 < lon1 THEN 270
    ELSE 0

\* Mutant of normalizeBearingDifference: the comparisons include 180 and
\* -180.
normalizeBearingDifferenceInclusive(bearing) ==
    IF bearing >= 180 THEN bearing - 360
    ELSE IF bearing <= -180 THEN bearing + 360
    ELSE bearing

\* Mutant of normalizeBearingDifference: differences below -180 are
\* returned as they are.
normalizeBearingDifferenceUpperOnly(bearing) ==
    IF bearing > 180 THEN bearing - 360 ELSE bearing

normalizeBearingDifference(bearing) ==
    IF bearing > 180 THEN bearing - 360
    ELSE IF bearing < -180 THEN bearing + 360
    ELSE bearing

\* Mutant of NearestScan: a waypoint as near as the minimum replaces it.
RECURSIVE NearestScanLastWins(_, _, _, _, _)
NearestScanLastWins(lon, nodes, i, nearestIndex, minDistance) ==
    IF i > Len(nodes) THEN nearestIndex
    ELSE LET d == IF nodes[i].longitude < lon THEN lon - nodes[i].longitude
                  ELSE nodes[i].longitude - lon
         IN  IF d <= minDistance
             THEN NearestScanLastWins(lon, nodes, i + 1, i - 1, d)
             ELSE NearestScanLastWins(lon, nodes, i + 1, nearestIndex,
                                      minDistance)

\* 0-based index of the nearest waypoint; Null for the empty list.
RECURSIVE NearestScan(_, _, _, _, _)
NearestScan(lon, nodes, i, nearestIndex, minDistance) ==
    IF i > Len(nodes) THEN nearestIndex
    ELSE LET d == calculateDistance(0, lon, 0, nodes[i].longitude)
         IN  IF d < minDistance
             THEN NearestScan(lon, nodes, i + 1, i - 1, d)
             ELSE NearestScan(lon, nodes, i + 1, nearestIndex, minDistance)

findNearestNode(lon, nodes) ==
    IF Len(nodes) = 0 THEN Null
    ELSE Num(NearestScan(lon, nodes, 2, 0,
                         calculateDistance(0, lon, 0, nodes[1].longitude)))

ARRIVAL_THRESHOLD == 15

\* Mutant of RoundToTen: truncation instead of rounding.
RoundToTenTruncates(d) == (d \div 10) * 10

\* Math.round(distance / 10) * 10 on a whole number of metres (Math.round
\* rounds a half up).
RoundToTen(d) == ((d + 5) \div 10) * 10

\* Mutant of BasePhrase: the full turns include their boundaries.
BasePhraseInclusive(rel) ==
    IF rel <= -45 THEN "Turn left"
    ELSE IF rel >= 45 THEN "Turn right"
    ELSE IF rel < -15 THEN "Slight left"
    ELSE IF rel > 15 THEN "Slight right"
    ELSE "Continue straight"

BasePhrase(rel) ==
    IF rel < -45 THEN "Turn left"
    ELSE IF rel > 45 THEN "Turn right"
    ELSE IF rel < -15 THEN "Slight left"
    ELSE IF rel > 15 THEN "Slight right"
    ELSE "Continue straight"

\* Mutant of InstructionBase: the custom text is appended to the base phrase.
InstructionBaseAppends(rel, nextNode) ==
    IF nextNode.instructionText # ""
    THEN BasePhrase(rel) \o " " \o nextNode.instructionText
    ELSE BasePhrase(rel)

\* The base phrase, replaced by the custom instruction when there is one
\* (an empty string is falsy).
InstructionBase(rel, nextNode) ==
    IF nextNode.instructionText # ""
    THEN nextNode.instructionText
    ELSE BasePhrase(rel)

LandmarkPart(nextNode) ==
    IF nextNode.hasLandmark THEN " toward " \o nextNode.landmarkName ELSE ""

\* Mutant of FloorPart: the indoor flag is not consulted.
FloorPartIgnoresIndoor(nextNode) ==
    IF nextNode.hasFloor
    THEN " (Floor " \o ToString(nextNode.floor) \o ")"
    ELSE ""

FloorPart(nextNode) ==
    IF nextNode.hasFloor /\ nextNode.isIndoor
    THEN " (Floor " \o ToString(nextNode.floor) \o ")"
    ELSE ""

\* Mutant of DistancePart: only distances above 100 m get a suffix.
DistancePartFarOnly(dist) ==
    IF dist > 100 THEN " in " \o ToString(RoundToTen(dist)) \o "m" ELSE ""

DistancePart(dist) ==
    IF dist > 100 THEN " in " \o ToString(RoundToTen(dist)) \o "m"
    ELSE IF dist > 0 THEN " in " \o ToString(dist) \o "m"
    ELSE ""

ComposeInstruction(rel, dist, nextNode) ==
    InstructionBase(rel, nextNode) \o LandmarkPart(nextNode)
        \o FloorPart(nextNode) \o DistancePart(dist)

\* Mutant of generateMovementInstruction: a custom instruction is composed
\* before the arrival test.
generateMovementInstructionOverrideFirst(rel, dist, nextNode) ==
    IF nextNode.instructionText # "" THEN ComposeInstruction(rel, dist, nextNode)
    ELSE IF dist < ARRIVAL_THRESHOLD THEN "You have reached the waypoint"
    ELSE ComposeInstruction(rel, dist, nextNode)

generateMovementInstruction(rel, dist, nextNode) ==
    IF dist < ARRIVAL_THRESHOLD THEN "You have reached the waypoint"
    ELSE ComposeInstruction(rel, dist, nextNode)

----------------------------------------------------------------------------
(* The hook: callbacks *)

\* The navigation state as one record, so that a callback is a function from
\* the state before it to the state its batch of setState calls leaves.
Nav ==
    [currentLocation |-> currentLocation, nearestNodeIndex |-> nearestNodeIndex,
     distance |-> distance, relativeBearing |-> relativeBearing,
     userHeading |-> userHeading, movementInstruction |-> movementInstruction,
     arrivednextNode |-> arrivednextNode,
     arriveAtDestination |-> arriveAtDestination]

\* A handleLocationUpdate callback is the closure of the render that made it:
\* the pathNodes and the userHeading of that render.
Handler(nodes, heading) == [pathNodes |-> nodes, userHeading |-> heading]

NextIndex(nearest, nodes) ==
    IF nearest < Len(nodes) - 1 THEN nearest + 1 ELSE nearest

RelBearing(h, bearingToNext) ==
    IF h.userHeading # Null
    THEN normalizeBearingDifference(bearingToNext - h.userHeading.v)
    ELSE 0

\* Mutant of ArrivedAtNext: an inclusive comparison.
ArrivedAtNextInclusive(distToNext) == distToNext <= ARRIVAL_THRESHOLD

ArrivedAtNext(distToNext) == distToNext < ARRIVAL_THRESHOLD

\* Mutant of ArrivedAtDest: the last waypoint as target is enough.
ArrivedAtDestAnyDistance(nextIndex, nodes, arrivedAtNext) ==
    nextIndex = Len(nodes) - 1

\* Mutant of ArrivedAtDest: once set, the destination flag stays set.
ArrivedAtDestSticky(nextIndex, nodes, arrivedAtNext) ==
    arriveAtDestination \/ (nextIndex = Len(nodes) - 1 /\ arrivedAtNext)

ArrivedAtDest(nextIndex, nodes, arrivedAtNext) ==
    nextIndex = Len(nodes) - 1 /\ arrivedAtNext

updateNavigationState(h, lon, st) ==
    IF Len(h.pathNodes) = 0
    THEN [st EXCEPT !.movementInstruction = "No path nodes available"]
    ELSE
      LET nearest == findNearestNode(lon, h.pathNodes)
          nextIndex == NextIndex(nearest.v, h.pathNodes)
          nextNode == h.pathNodes[nextIndex + 1]
          distToNext == calculateDistance(0, lon, 0, nextNode.longitude)
          bearingToNext == calculateBearing(0, lon, 0, nextNode.longitude)
          relBearing == RelBearing(h, bearingToNext)
          arrivedAtNext == ArrivedAtNext(distToNext)
      IN  [st EXCEPT
             !.nearestNodeIndex = nearest,
             !.distance = distToNext,
             !.relativeBearing = relBearing,
             !.arrivednextNode = arrivedAtNext,
             !.arriveAtDestination =
                 ArrivedAtDest(nextIndex, h.pathNodes, arrivedAtNext),
             !.movementInstruction =
                 generateMovementInstruction(relBearing, distToNext, nextNode)]

\* JavaScript's  x >= 0 : null converts to 0, undefined to NaN.
JsAtLeastZero(x) ==
    CASE x.t = "number" -> x.v >= 0
      [] x.t = "null" -> TRUE
      [] OTHER -> FALSE

HeadingAccepted(heading) == heading # Undefined /\ JsAtLeastZero(heading)

\* Mutant of handleLocationUpdate: fixes are ignored once the destination
\* flag is set.
handleLocationUpdateStopsAfterArrival(h, position, st) ==
    IF st.arriveAtDestination THEN st
    ELSE
      LET located == [st EXCEPT !.currentLocation = Num(position.longitude)]
          headed == IF HeadingAccepted(position.heading)
                    THEN [located EXCEPT !.userHeading = position.heading]
                    ELSE located
      IN  updateNavigationState(h, position.longitude, headed)

handleLocationUpdate(h, position, st) ==
    LET located == [st EXCEPT !.currentLocation = Num(position.longitude)]
        headed == IF HeadingAccepted(position.heading)
                  THEN [located EXCEPT !.userHeading = position.heading]
                  ELSE located
    IN  updateNavigationState(h, position.longitude, headed)

handleLocationError(message, st) ==
    [st EXCEPT !.movementInstruction = "Location error: " \o message]

----------------------------------------------------------------------------
(* The hook: the tracking effect, and the platform's Geolocation *)

\* What the effect reads and writes: watchIdRef, the platform's active
\* watches, and (for the record) the Geolocation calls it makes.
Geo == [ref |-> watchIdRef, subs |-> subscriptions, calls |-> <<>>]

ClearWatch(g) ==
    [ref |-> Null,
     subs |-> {s \in g.subs : s.id # g.ref.v},
     calls |-> Append(g.calls, "clearWatch")]

\* Mutant of EffectCleanup: the ref is reset but the watch is not cleared.
EffectCleanupForgetsWatch(g) == [g EXCEPT !.ref = Null]

\* The cleanup function the effect returns.  A run that took the early
\* return made no cleanup function, and left watchIdRef null, which makes
\* this guarded cleanup a no-op for it.
EffectCleanup(g) == IF g.ref # Null THEN ClearWatch(g) ELSE g

FreeWatchId(g) ==
    CHOOSE i \in 1..(MaxWatches + 1) :
        /\ i \notin {s.id : s \in g.subs}
        /\ \A j \in 1..(i - 1) : j \in {s.id : s \in g.subs}

WatchPosition(g, handler) ==
    LET id == FreeWatchId(g)
    IN  [ref |-> Num(id),
         subs |-> g.subs \cup {[id |-> id, handler |-> handler]},
         calls |-> Append(g.calls, "watchPosition")]

EffectBody(g, en, nodes, heading) ==
    IF ~en \/ Len(nodes) = 0
    THEN (IF g.ref # Null THEN ClearWatch(g) ELSE g)
    ELSE WatchPosition(g, Handler(nodes, heading))

\* NavigationScreen builds the pathNodes argument with Array.map in its
\* render, so every render passes a new array.
HostPassesFreshArray == TRUE

\* The effect's dependencies: enabled, pathNodes.length, updateInterval (a
\* constant default), handleLocationUpdate (remade when pathNodes or
\* userHeading changes) and handleLocationError (never remade).
EffectDepsChanged(en, nodes, heading) ==
    \/ en # enabled
    \/ Len(nodes) # Len(pathNodes)
    \/ HostPassesFreshArray
    \/ nodes # pathNodes
    \/ heading # userHeading

\* A render of the hook with inputs en and nodes and heading state heading,
\* followed by the effect flush.
Render(en, nodes, heading) ==
    IF EffectDepsChanged(en, nodes, heading)
    THEN EffectBody(EffectCleanup(Geo), en, nodes, heading)
    ELSE Geo

\* The nextNodeIndex field of the object the hook returns.
nextNodeIndex ==
    IF nearestNodeIndex # Null /\ nearestNodeIndex.v < Len(pathNodes) - 1
    THEN Num(nearestNodeIndex.v + 1)
    ELSE nearestNodeIndex

\* The round-trip history after a step that is not the fresh fix itself.
RoundTripKept == IF roundTrip = "refreshed" THEN "none" ELSE roundTrip

SetNav(st) ==
    /\ currentLocation' = st.currentLocation
    /\ nearestNodeIndex' = st.nearestNodeIndex
    /\ distance' = st.distance
    /\ relativeBearing' = st.relativeBearing
    /\ userHeading' = st.userHeading
    /\ movementInstruction' = st.movementInstruction
    /\ arrivednextNode' = st.arrivednextNode
    /\ arriveAtDestination' = st.arriveAtDestination

SetGeo(g) ==
    /\ Cardinality(g.subs) <= MaxWatches
    /\ watchIdRef' = g.ref
    /\ subscriptions' = g.subs
    /\ geoCalls' = g.calls

----------------------------------------------------------------------------
(* Initial state: the first render of NavigationScreen, before the route    *)
(* has loaded and before the location permission is granted.               *)

Init ==
    /\ pathNodes = <<>>
    /\ enabled = FALSE
    /\ mounted = TRUE
    /\ currentLocation = Null
    /\ nearestNodeIndex = Null
    /\ distance = 0
    /\ relativeBearing = 0
    /\ userHeading = Null
    /\ movementInstruction = "Initializing navigation..."
    /\ arrivednextNode = FALSE
    /\ arriveAtDestination = FALSE
    /\ watchIdRef = Null
    /\ subscriptions = {}
    /\ inflight = <<>>
    /\ geoCalls = <<>>
    /\ lastEvent = "init"
    /\ arrivedBefore = FALSE
    /\ roundTrip = "none"
    /\ RestInit

----------------------------------------------------------------------------
(* Actions *)

\* The host changes the enabled argument (permission granted, the pause /
\* resume button, an arrival).
SetEnabled(en) ==
    /\ UNCHANGED restVars
    /\ mounted
    /\ en # enabled
    /\ enabled' = en
    /\ SetGeo(Render(en, pathNodes, userHeading))
    /\ lastEvent' = "props"
    /\ arrivedBefore' = arriveAtDestination
    /\ roundTrip' = IF ~en /\ currentLocation # Null THEN "paused"
                    ELSE IF en /\ roundTrip = "paused" THEN "resumed"
                    ELSE RoundTripKept
    /\ UNCHANGED <<pathNodes, mounted, navState, inflight>>

\* The host passes another waypoint list (the route has loaded, failed or
\* changed).
SetPathNodes(nodes) ==
    /\ UNCHANGED restVars
    /\ mounted
    /\ nodes # pathNodes
    /\ pathNodes' = nodes
    /\ SetGeo(Render(enabled, nodes, userHeading))
    /\ lastEvent' = "props"
    /\ arrivedBefore' = arriveAtDestination
    /\ roundTrip' = "none"
    /\ UNCHANGED <<enabled, mounted, navState, inflight>>

\* The host re-renders for a reason of its own, with the same inputs.
HostRerender ==
    /\ UNCHANGED restVars
    /\ mounted
    /\ SetGeo(Render(enabled, pathNodes, userHeading))
    /\ lastEvent' = "render"
    /\ arrivedBefore' = arriveAtDestination
    /\ roundTrip' = RoundTripKept
    /\ UNCHANGED <<pathNodes, enabled, mounted, navState, inflight>>

\* The platform emits a fix for an active watch; it reaches the JavaScript
\* callback in a later task.
EmitFix ==
    /\ UNCHANGED restVars
    /\ Len(inflight) < MaxInFlight
    /\ \E s \in subscriptions : inflight' = Append(inflight, s.handler)
    /\ geoCalls' = <<>>
    /\ lastEvent' = "emit"
    /\ arrivedBefore' = arriveAtDestination
    /\ roundTrip' = RoundTripKept
    /\ UNCHANGED <<pathNodes, enabled, mounted, navState, watchIdRef,
                   subscriptions>>

\* An emitted fix reaches its callback.  Setting currentLocation to a new
\* object always re-renders the host.  On an unmounted component the
\* setState calls do nothing.
DeliverFix(lon, heading) ==
    /\ UNCHANGED restVars
    /\ Len(inflight) > 0
    /\ inflight' = Tail(inflight)
    /\ lastEvent' = "fix"
    /\ arrivedBefore' = arriveAtDestination
    /\ roundTrip' = IF /\ mounted
                       /\ roundTrip = "resumed"
                       /\ \E s \in subscriptions : s.handler = Head(inflight)
                    THEN "refreshed"
                    ELSE RoundTripKept
    /\ IF mounted
       THEN LET st == handleLocationUpdate(
                          Head(inflight),
                          [longitude |-> lon, heading |-> heading], Nav)
            IN  /\ SetNav(st)
                /\ SetGeo(Render(enabled, pathNodes, st.userHeading))
       ELSE /\ geoCalls' = <<>>
            /\ UNCHANGED <<navState, watchIdRef, subscriptions>>
    /\ UNCHANGED <<pathNodes, enabled, mounted>>

\* The platform reports an error to the error callback of an active watch.
\* The host re-renders only when the instruction text changed.
LocationError(message) ==
    /\ UNCHANGED restVars
    /\ mounted
    /\ subscriptions # {}
    /\ LET st == handleLocationError(message, Nav)
       IN  /\ SetNav(st)
           /\ IF st # Nav
              THEN SetGeo(Render(enabled, pathNodes, st.userHeading))
              ELSE SetGeo(Geo)
    /\ lastEvent' = "error"
    /\ arrivedBefore' = arriveAtDestination
    /\ roundTrip' = RoundTripKept
    /\ UNCHANGED <<pathNodes, enabled, mounted, inflight>>

\* The host component unmounts: the effect's cleanup runs.
Unmount ==
    /\ UNCHANGED restVars
    /\ mounted
    /\ mounted' = FALSE
    /\ SetGeo(EffectCleanup(Geo))
    /\ lastEvent' = "unmount"
    /\ arrivedBefore' = arriveAtDestination
    /\ roundTrip' = RoundTripKept
    /\ UNCHANGED <<pathNodes, enabled, navState, inflight>>

Next ==
    \/ \E en \in BOOLEAN : SetEnabled(en)
    \/ \E nodes \in PathChoices : SetPathNodes(nodes)
    \/ HostRerender
    \/ EmitFix
    \/ \E lon \in FixLongitudes, heading \in FixHeadings :
           DeliverFix(lon, heading)
    \/ \E message \in ErrorMessages : LocationError(message)
    \/ Unmount

Spec == Init /\ [][Next]_vars

----------------------------------------------------------------------------
(* The pure functions on their own: generateMovementInstruction,           *)
(* findNearestNode and updateNavigationState applied once to inputs drawn  *)
(* by the initial state.  The inputs live in the engine's variables:       *)
(* relativeBearing and distance are the arguments of                       *)
(* generateMovementInstruction and pathNodes[1] its target; currentLocation *)
(* and pathNodes are the arguments of findNearestNode.                     *)

PureBearings ==
    {-180, -90, -46, -45, -44, -16, -15, -14, 0, 14, 15, 16, 44, 45, 46,
     90, 180}

PureDistances == {0, 1, 14, 15, 16, 100, 101, 104, 105, 108, 111, 115}

\* Target waypoints with every combination of the optional fields, 111 m
\* east of the origin.
DecoratedNodes ==
    { [longitude |-> 111, instructionText |-> text, hasLandmark |-> lm,
       landmarkName |-> IF lm THEN "Library" ELSE "",
       hasFloor |-> fl[1], floor |-> fl[2], isIndoor |-> indoor] :
        text \in {"", "Take the stairs"}, lm \in BOOLEAN,
        fl \in {<<FALSE, 0>>, <<TRUE, 0>>, <<TRUE, 2>>}, indoor \in BOOLEAN }

\* Waypoint lists for the locator: empty, single, equidistant and duplicate
\* waypoints, a list that is not ordered west to east, and two-waypoint
\* routes that end at a decorated waypoint.
LocatorLists ==
    { <<>>,
      <<PlainNode(50)>>,
      <<PlainNode(0), PlainNode(100)>>,
      <<PlainNode(100), PlainNode(0)>>,
      <<PlainNode(0), PlainNode(100), PlainNode(100)>>,
      <<PlainNode(100), PlainNode(50), PlainNode(0)>> }
    \cup { <<PlainNode(0), n>> : n \in DecoratedNodes }

LocatorLongitudes == {0, 50, 75, 100, 105, 111, 120}

\* The bearing differences the caller can pass: a bearing in [0, 360) minus
\* a heading in [0, 360], in whole degrees, with both ends.
BearingDeltas == -360..360

InitPure ==
    /\ enabled = TRUE
    /\ mounted = TRUE
    /\ nearestNodeIndex = Null
    /\ movementInstruction = "Initializing navigation..."
    /\ arrivednextNode = FALSE
    /\ arriveAtDestination = FALSE
    /\ watchIdRef = Null
    /\ subscriptions = {}
    /\ inflight = <<>>
    /\ geoCalls = <<>>
    /\ lastEvent = "init"
    /\ arrivedBefore = FALSE
    /\ roundTrip = "none"
    /\ RestInit
    /\ \/ /\ pathNodes \in {<<n>> : n \in DecoratedNodes}
          /\ relativeBearing \in PureBearings
          /\ distance \in PureDistances
          /\ currentLocation = Null
          /\ userHeading = Null
       \/ /\ pathNodes \in LocatorLists
          /\ relativeBearing = 0
          /\ distance = 0
          /\ currentLocation \in {Num(lon) : lon \in LocatorLongitudes}
          /\ userHeading \in {Null, Num(90)}
       \/ /\ pathNodes = <<>>
          /\ relativeBearing \in BearingDeltas
          /\ distance = 0
          /\ currentLocation = Null
          /\ userHeading = Null

\* generateMovementInstruction(relativeBearing, distance, pathNodes[1])
Generate ==
    /\ UNCHANGED restVars
    /\ lastEvent = "init"
    /\ currentLocation = Null
    /\ Len(pathNodes) = 1
    /\ movementInstruction' =
           generateMovementInstruction(relativeBearing, distance, pathNodes[1])
    /\ lastEvent' = "generated"
    /\ UNCHANGED <<pathNodes, enabled, mounted, currentLocation,
                   nearestNodeIndex, distance, relativeBearing, userHeading,
                   arrivednextNode, arriveAtDestination, watchIdRef,
                   subscriptions, inflight, geoCalls, arrivedBefore, roundTrip>>

\* findNearestNode(currentLocation, pathNodes)
Locate ==
    /\ UNCHANGED restVars
    /\ lastEvent = "init"
    /\ currentLocation # Null
    /\ nearestNodeIndex' = findNearestNode(currentLocation.v, pathNodes)
    /\ lastEvent' = "located"
    /\ UNCHANGED <<pathNodes, enabled, mounted, currentLocation, distance,
                   relativeBearing, userHeading, movementInstruction,
                   arrivednextNode, arriveAtDestination, watchIdRef,
                   subscriptions, inflight, geoCalls, arrivedBefore, roundTrip>>

\* updateNavigationState(currentLocation) with the callback of a render
\* whose inputs are pathNodes and userHeading.
UpdateOnce ==
    /\ UNCHANGED restVars
    /\ lastEvent = "init"
    /\ currentLocation # Null
    /\ SetNav(updateNavigationState(Handler(pathNodes, userHeading),
                                    currentLocation.v, Nav))
    /\ lastEvent' = "updated"
    /\ UNCHANGED <<pathNodes, enabled, mounted, watchIdRef, subscriptions,
                   inflight, geoCalls, arrivedBefore, roundTrip>>

\* normalizeBearingDifference(relativeBearing), applied to an input and then
\* once more to its own result.
Normalize ==
    /\ UNCHANGED restVars
    /\ lastEvent \in {"init", "normalized"}
    /\ currentLocation = Null
    /\ Len(pathNodes) = 0
    /\ relativeBearing' = normalizeBearingDifference(relativeBearing)
    /\ lastEvent' = IF lastEvent = "init" THEN "normalized" ELSE "renormalized"
    /\ UNCHANGED <<pathNodes, enabled, mounted, currentLocation,
                   nearestNodeIndex, distance, userHeading,
                   movementInstruction, arrivednextNode, arriveAtDestination,
                   watchIdRef, subscriptions, inflight, geoCalls,
                   arrivedBefore, roundTrip>>

NextPure == Generate \/ Locate \/ UpdateOnce \/ Normalize

SpecPure == InitPure /\ [][NextPure]_vars

----------------------------------------------------------------------------
(* NavigationScreen around the engine: the permission request, the pause / *)
(* resume button, the arrival alert and the final-arrival modal.  The      *)
(* 'Destination Reached' and 'Indoor Navigation' alerts are native dialogs *)
(* with the single button 'Done': while one is on display no control of    *)
(* the screen can be pressed, and 'Done' calls navigation.goBack().        *)

FINAL_ARRIVAL_THRESHOLD == 5

\* The waypoint lists useRoutePath hands to the screen: none, a single
\* waypoint, the two-waypoint route, and a route whose second waypoint is
\* 5 m from the first.
ScreenPaths ==
    { <<>>,
      <<PlainNode(0)>>,
      <<PlainNode(0), PlainNode(111)>>,
      <<PlainNode(0), PlainNode(5), PlainNode(230)>> }

\* Fixes at the start, 6 m before the last waypoint of the two-waypoint
\* route, and on it; without a heading and heading north.
ScreenLongitudes == {0, 105, 111}

ScreenHeadings == {Undefined, Num(0)}

\* The condition of the final-arrival effect.
FinalArrivalTrigger(nearest, dist, len, triggered) ==
    /\ nearest = Num(len - 1)
    /\ dist <= FINAL_ARRIVAL_THRESHOLD
    /\ ~triggered

\* Mutant of ArrivalEffect: the alert is shown but navigation stays active.
ArrivalEffectAlertOnly(before, now, active) == active

\* navigationActive after the arrival effect, which runs when
\* arriveAtDestination changed.
ArrivalEffect(before, now, active) ==
    IF now # before /\ now THEN FALSE ELSE active

\* The render of NavigationScreen with engine state st and waypoint list
\* nodes, its two arrival effects, and the render their setState calls
\* cause.  The final-arrival effect runs again when it has set
\* hasTriggeredFinalArrival.
ScreenCommit(st, nodes) ==
    LET arrival == st.arriveAtDestination /\ ~arriveAtDestination
        fire1 == FinalArrivalTrigger(st.nearestNodeIndex, st.distance,
                                     Len(nodes), hasTriggeredFinalArrival)
        fire2 == fire1 /\ FinalArrivalTrigger(st.nearestNodeIndex,
                                              st.distance, Len(nodes), TRUE)
        active == IF fire1 THEN FALSE
                  ELSE ArrivalEffect(arriveAtDestination,
                                     st.arriveAtDestination, navigationActive)
        en == active /\ permissionGranted
        g1 == Render(enabled, nodes, st.userHeading)
    IN  /\ navigationActive' = active
        /\ showFinalArrivalModal' = (fire1 \/ showFinalArrivalModal)
        /\ hasTriggeredFinalArrival' = (fire1 \/ hasTriggeredFinalArrival)
        /\ alertShown' = (arrival \/ alertShown)
        /\ finalArrivalOpenings' = finalArrivalOpenings
                                     + (IF fire1 THEN 1 ELSE 0)
                                     + (IF fire2 THEN 1 ELSE 0)
        /\ enabled' = en
        /\ SetGeo(IF fire1 \/ active # navigationActive
                  THEN EffectBody(EffectCleanup(g1), en, nodes,
                                  st.userHeading)
                  ELSE g1)
        /\ UNCHANGED permissionGranted

\* PermissionsAndroid.requestMultiple resolves with both permissions
\* granted.
GrantPermission ==
    /\ UNCHANGED otherVars
    /\ mounted
    /\ ~permissionGranted
    /\ permissionGranted' = TRUE
    /\ enabled' = navigationActive
    /\ SetGeo(Render(navigationActive, pathNodes, userHeading))
    /\ lastEvent' = "permission"
    /\ arrivedBefore' = arriveAtDestination
    /\ roundTrip' = RoundTripKept
    /\ UNCHANGED <<pathNodes, mounted, navState, inflight, navigationActive,
                   showFinalArrivalModal, hasTriggeredFinalArrival,
                   alertShown, finalArrivalOpenings>>

\* The pause / resume button.
ToggleNavigation ==
    /\ UNCHANGED otherVars
    /\ mounted
    /\ permissionGranted
    /\ Len(pathNodes) > 0
    /\ ~alertShown
    /\ ~showFinalArrivalModal
    /\ navigationActive' = ~navigationActive
    /\ enabled' = ~navigationActive
    /\ SetGeo(Render(~navigationActive, pathNodes, userHeading))
    /\ lastEvent' = "toggle"
    /\ arrivedBefore' = arriveAtDestination
    /\ roundTrip' = RoundTripKept
    /\ UNCHANGED <<pathNodes, mounted, navState, inflight, permissionGranted,
                   showFinalArrivalModal, hasTriggeredFinalArrival,
                   alertShown, finalArrivalOpenings>>

\* The modal is closed: by the back button (onRequestClose), by 'Exit
\* Navigation' (which also deactivates navigation), or by 'Enter Building'
\* (which shows the 'Indoor Navigation' alert).
CloseModal(button) ==
    /\ UNCHANGED otherVars
    /\ mounted
    /\ showFinalArrivalModal
    /\ ~alertShown
    /\ showFinalArrivalModal' = FALSE
    /\ navigationActive' = IF button = "exit" THEN FALSE ELSE navigationActive
    /\ alertShown' = (button = "enter")
    /\ enabled' = (navigationActive' /\ permissionGranted)
    /\ SetGeo(Render(navigationActive' /\ permissionGranted, pathNodes,
                     userHeading))
    /\ lastEvent' = "modal"
    /\ arrivedBefore' = arriveAtDestination
    /\ roundTrip' = RoundTripKept
    /\ UNCHANGED <<pathNodes, mounted, navState, inflight, permissionGranted,
                   hasTriggeredFinalArrival, finalArrivalOpenings>>

\* useRoutePath returns another list of coordinates.
RouteLoaded(nodes) ==
    /\ UNCHANGED otherVars
    /\ mounted
    /\ nodes # pathNodes
    /\ pathNodes' = nodes
    /\ ScreenCommit(Nav, nodes)
    /\ lastEvent' = "props"
    /\ arrivedBefore' = arriveAtDestination
    /\ roundTrip' = RoundTripKept
    /\ UNCHANGED <<mounted, navState, inflight>>

\* An emitted fix reaches its callback, and the screen renders the result.
ScreenFix(lon, heading) ==
    /\ UNCHANGED otherVars
    /\ Len(inflight) > 0
    /\ inflight' = Tail(inflight)
    /\ lastEvent' = "fix"
    /\ arrivedBefore' = arriveAtDestination
    /\ roundTrip' = RoundTripKept
    /\ IF mounted
       THEN LET st == handleLocationUpdate(
                          Head(inflight),
                          [longitude |-> lon, heading |-> heading], Nav)
            IN  /\ SetNav(st)
                /\ ScreenCommit(st, pathNodes)
       ELSE /\ geoCalls' = <<>>
            /\ UNCHANGED <<navState, watchIdRef, subscriptions, enabled,
                           screenVars>>
    /\ UNCHANGED <<pathNodes, mounted>>

NextScreen ==
    \/ GrantPermission
    \/ ToggleNavigation
    \/ \E button \in {"back", "exit", "enter"} : CloseModal(button)
    \/ \E nodes \in ScreenPaths : RouteLoaded(nodes)
    \/ EmitFix
    \/ \E lon \in ScreenLongitudes, heading \in ScreenHeadings :
           ScreenFix(lon, heading)
    \/ Unmount

SpecScreen == Init /\ [][NextScreen]_vars

----------------------------------------------------------------------------
(* useRoutePath: fetchPathNodes runs when routeId changes and on refetch;  *)
(* each call awaits getPathNodesByRouteId and stores what it got when the  *)
(* promise settles, in whatever order the promises settle.                 *)

MaxPending == 3       \* calls of getPathNodesByRouteId in flight at one time

RouteIds == {"", "r1", "r2", "r3"}

RouteNode(id, order, lon, type, text) ==
    [routeId |-> id, order |-> order, longitude |-> lon, type |-> type,
     instructionText |-> text, description |-> "", isIndoor |-> FALSE]

\* What getPathNodesByRouteId resolves with: two waypoints out of order for
\* r1, one waypoint for r2, none for r3.
ServiceNodes(id) ==
    CASE id = "r1" -> << RouteNode("r1", 2, 111, "turn", ""),
                         RouteNode("r1", 1, 0, "waypoint", "Start here") >>
      [] id = "r2" -> << RouteNode("r2", 1, 50, "waypoint", "") >>
      [] OTHER -> <<>>

\* Position of node in a list sorted by order: after the nodes of smaller or
\* equal order (Array.prototype.sort is stable).
RECURSIVE InsertByOrder(_, _)
InsertByOrder(sorted, node) ==
    IF sorted = <<>> THEN <<node>>
    ELSE IF Head(sorted).order <= node.order
         THEN <<Head(sorted)>> \o InsertByOrder(Tail(sorted), node)
         ELSE <<node>> \o sorted

\* fetchedNodes.sort((a, b) => a.order - b.order)
RECURSIVE SortByOrder(_)
SortByOrder(nodes) ==
    IF nodes = <<>> THEN <<>>
    ELSE InsertByOrder(SortByOrder(SubSeq(nodes, 1, Len(nodes) - 1)),
                       nodes[Len(nodes)])

transformToCoordinates(nodes) ==
    [i \in 1..Len(nodes) |->
        [longitude |-> nodes[i].longitude, order |-> nodes[i].order,
         isIndoor |-> nodes[i].isIndoor]]

IsInstruction(node) == node.type = "turn" \/ node.instructionText # ""

transformToInstructions(nodes) ==
    LET kept == SelectSeq(nodes, IsInstruction)
    IN  [i \in 1..Len(kept) |->
            [order |-> kept[i].order,
             text |-> IF kept[i].instructionText # ""
                      THEN kept[i].instructionText ELSE kept[i].description,
             type |-> kept[i].type]]

\* The setState calls of the three branches that store no nodes.
StoreNothing(message) ==
    /\ error' = message
    /\ routePathNodes' = <<>>
    /\ coordinates' = <<>>
    /\ instructions' = <<>>

\* fetchPathNodes up to its await, called with routeId id.
StartFetch(id) ==
    IF id = ""
    THEN /\ StoreNothing("Invalid route ID")
         /\ UNCHANGED <<loading, pending>>
    ELSE /\ loading' = TRUE
         /\ error' = ""
         /\ pending' = Append(pending, id)
         /\ UNCHANGED <<routePathNodes, coordinates, instructions>>

\* The host passes another routeId: fetchPathNodes is remade and the effect
\* calls it.
SetRouteId(id) ==
    /\ id # routeId
    /\ Len(pending) < MaxPending
    /\ routeId' = id
    /\ StartFetch(id)
    /\ UNCHANGED <<engineVars, screenVars, resolveVars, logVars>>

\* The consumer calls refetch.
Refetch ==
    /\ Len(pending) < MaxPending
    /\ StartFetch(routeId)
    /\ UNCHANGED <<routeId, engineVars, screenVars, resolveVars, logVars>>

\* fetchPathNodes after its await: the i-th pending call settles, with the
\* nodes of its routeId or with an exception.
SettleFetch(i, ok) ==
    /\ i \in 1..Len(pending)
    /\ pending' = SubSeq(pending, 1, i - 1)
                      \o SubSeq(pending, i + 1, Len(pending))
    /\ loading' = FALSE
    /\ IF ~ok THEN StoreNothing("Failed to fetch path nodes")
       ELSE IF Len(ServiceNodes(pending[i])) = 0
       THEN StoreNothing("No path nodes found for route " \o pending[i])
       ELSE LET sortedNodes == SortByOrder(ServiceNodes(pending[i]))
            IN  /\ routePathNodes' = sortedNodes
                /\ coordinates' = transformToCoordinates(sortedNodes)
                /\ instructions' = transformToInstructions(sortedNodes)
                /\ error' = ""
    /\ UNCHANGED <<routeId, engineVars, screenVars, resolveVars, logVars>>

NextRoute ==
    \/ \E id \in RouteIds : SetRouteId(id)
    \/ Refetch
    \/ \E i \in 1..MaxPending, ok \in BOOLEAN : SettleFetch(i, ok)

SpecRoute == Init /\ [][NextRoute]_vars

----------------------------------------------------------------------------
(* navigationService.resolveRoute: one call at a time, from its arguments  *)
(* to the value its promise resolves with.  Scores are kept as integers:   *)
(* the model's score is 5000 times the code's, so the weights 0.2, 0.4 and *)
(* 0.6 are 1, 2 and 3 and the division of estimatedTime by 1000 is a       *)
(* factor 1000 on the difficulty score.                                    *)

NoRoute == [t |-> "null", id |-> ""]
RouteId(id) == [t |-> "string", id |-> id]

RouteTo(id, endBuilding, startBuilding, estimatedTime, difficulty) ==
    [id |-> id, endBuilding |-> endBuilding, startBuilding |-> startBuilding,
     estimatedTime |-> estimatedTime, difficulty |-> difficulty]

\* What getRoutes settles with: failure, no routes, no route to b1, one
\* route to b1, several with distinct scores, routes with equal scores in
\* either order, routes whose order of scores depends on
\* preferShortestTime, a route without a start building, and two routes to
\* b2.
FetchOutcomes ==
    { [ok |-> FALSE, routes |-> <<>>] } \cup
    { [ok |-> TRUE, routes |-> r] : r \in
        { <<>>,
          <<RouteTo("d", "b2", "s", 100, "easy")>>,
          <<RouteTo("d", "b2", "s", 100, "easy"),
            RouteTo("a", "b1", "s", 300, "easy")>>,
          <<RouteTo("c", "b1", "s", 600, "easy"),
            RouteTo("d", "b2", "s", 100, "easy"),
            RouteTo("a", "b1", "s", 300, "easy"),
            RouteTo("b", "b1", "", 300, "difficult")>>,
          <<RouteTo("a", "b1", "s", 300, "easy"),
            RouteTo("e", "b1", "s", 300, "easy")>>,
          <<RouteTo("e", "b1", "s", 300, "easy"),
            RouteTo("a", "b1", "s", 300, "easy")>>,
          <<RouteTo("x", "b1", "s", 1000, "easy"),
            RouteTo("y", "b1", "s", 700, "moderate")>>,
          <<RouteTo("y", "b1", "s", 700, "moderate"),
            RouteTo("x", "b1", "s", 1000, "easy")>>,
          <<RouteTo("b", "b1", "", 300, "difficult")>>,
          <<RouteTo("b", "b1", "", 300, "difficult"),
            RouteTo("a", "b1", "s", 300, "easy")>>,
          <<RouteTo("a", "b1", "s", 300, "easy"),
            RouteTo("b", "b1", "", 300, "difficult")>>,
          <<RouteTo("d", "b2", "s", 100, "easy"),
            RouteTo("f", "b2", "s", 100, "difficult")>>,
          <<RouteTo("f", "b2", "s", 100, "difficult"),
            RouteTo("d", "b2", "s", 100, "easy")>>,
          <<RouteTo("a", "b1", "s", 300, "easy"),
            RouteTo("e", "b1", "s", 300, "easy"),
            RouteTo("c", "b1", "s", 600, "easy")>>,
          <<RouteTo("c", "b1", "s", 600, "easy"),
            RouteTo("e", "b1", "s", 300, "easy"),
            RouteTo("a", "b1", "s", 300, "easy")>> } }

BuildingIds == {"", "b1", "b2", "b3"}

difficultyScoreMap(difficulty) ==
    CASE difficulty = "easy" -> 1
      [] difficulty = "moderate" -> 2
      [] difficulty = "difficult" -> 3

\* 5000 times the score of lines 95-127.
RouteScore(route, preferShortestTime) ==
    LET distanceWeight == IF preferShortestTime THEN 1 ELSE 2
        timeWeight == IF preferShortestTime THEN 3 ELSE 1
        difficultyWeight == 1
        distanceScore == IF route.startBuilding # ""
                         THEN route.estimatedTime ELSE 0
        timeScore == route.estimatedTime
        difficultyScore == difficultyScoreMap(route.difficulty) * 1000
    IN  distanceScore * distanceWeight + timeScore * timeWeight
            + difficultyScore * difficultyWeight

\* Mutant of BestRoute: the first matching route, whatever its score.
BestRouteFirstMatch(matchingRoutes, preferShortestTime) == matchingRoutes[1]

\* routeScores.sort((a, b) => a.score - b.score)[0]: the sort is stable, so
\* the first of the routes with the least score.
BestRoute(matchingRoutes, preferShortestTime) ==
    LET i == CHOOSE k \in 1..Len(matchingRoutes) :
                 /\ \A j \in 1..Len(matchingRoutes) :
                        RouteScore(matchingRoutes[k], preferShortestTime)
                          <= RouteScore(matchingRoutes[j], preferShortestTime)
                 /\ \A j \in 1..(k - 1) :
                        RouteScore(matchingRoutes[j], preferShortestTime)
                          > RouteScore(matchingRoutes[k], preferShortestTime)
    IN  matchingRoutes[i]

\* resolveRoute after its await.
ResolveWith(call, fetched) ==
    IF ~fetched.ok THEN NoRoute
    ELSE IF Len(fetched.routes) = 0 THEN NoRoute
    ELSE LET EndsAtSelected(route) ==
                 route.endBuilding = call.selectedBuildingId
             matchingRoutes == SelectSeq(fetched.routes, EndsAtSelected)
         IN  IF Len(matchingRoutes) = 0 THEN NoRoute
             ELSE IF Len(matchingRoutes) = 1
                  THEN RouteId(matchingRoutes[1].id)
             ELSE RouteId(BestRoute(matchingRoutes,
                                    call.preferShortestTime).id)

\* resolveRoute up to its await.
ResolveRoute(hasLocation, selectedBuildingId, preferShortestTime) ==
    /\ resolveCall.state # "pending"
    /\ allRoutes' = [ok |-> TRUE, routes |-> <<>>]
    /\ IF ~hasLocation \/ selectedBuildingId = ""
       THEN /\ resolveCall' = [state |-> "returned",
                               hasLocation |-> hasLocation,
                               selectedBuildingId |-> selectedBuildingId,
                               preferShortestTime |-> preferShortestTime]
            /\ resolveResult' = NoRoute
       ELSE /\ resolveCall' = [state |-> "pending",
                               hasLocation |-> hasLocation,
                               selectedBuildingId |-> selectedBuildingId,
                               preferShortestTime |-> preferShortestTime]
            /\ resolveResult' = [t |-> "none", id |-> ""]
    /\ UNCHANGED <<engineVars, screenVars, routeVars, logVars>>

\* getRoutes settles and resolveRoute returns.
GetRoutesSettles(fetched) ==
    /\ resolveCall.state = "pending"
    /\ allRoutes' = fetched
    /\ resolveResult' = ResolveWith(resolveCall, fetched)
    /\ resolveCall' = [resolveCall EXCEPT !.state = "returned"]
    /\ UNCHANGED <<engineVars, screenVars, routeVars, logVars>>

NextResolve ==
    \/ \E hasLocation \in BOOLEAN, selectedBuildingId \in BuildingIds,
          preferShortestTime \in BOOLEAN :
           ResolveRoute(hasLocation, selectedBuildingId, preferShortestTime)
    \/ \E fetched \in FetchOutcomes : GetRoutesSettles(fetched)

SpecResolve == Init /\ [][NextResolve]_vars

----------------------------------------------------------------------------
(* The in-memory log: pushLog (called by the wrapped console methods) and  *)
(* clearLogs.  An entry is its timestamp, the number of the pushLog call.  *)

MAX_LOGS == 200

MaxPushes == 202      \* pushLog calls in one run

\* Mutant of pushLog: the entry is added at the end, the first is dropped.
pushLogAppends(entry, log) ==
    LET pushed == Append(log, entry)
    IN  IF Len(pushed) > MAX_LOGS THEN Tail(pushed) ELSE pushed

\* logs.unshift(entry); if (logs.length > 200) logs.pop();
pushLog(entry, log) ==
    LET unshifted == <<entry>> \o log
    IN  IF Len(unshifted) > MAX_LOGS
        THEN SubSeq(unshifted, 1, Len(unshifted) - 1)
        ELSE unshifted

\* console.error, console.warn or console.log is called.
PushLog ==
    /\ logClock < MaxPushes
    /\ logs' = pushLog([timestamp |-> logClock, level |-> "error"], logs)
    /\ logClock' = logClock + 1
    /\ UNCHANGED <<engineVars, screenVars, routeVars, resolveVars>>

\* logs = []
ClearLogs ==
    /\ logs' = <<>>
    /\ UNCHANGED <<logClock, engineVars, screenVars, routeVars, resolveVars>>

NextLog == PushLog \/ ClearLogs

SpecLog == Init /\ [][NextLog]_vars

----------------------------------------------------------------------------
(* Claims C1 - C10 *)

Min(a, b) == IF a < b THEN a ELSE b
LastIndex(nodes) == Len(nodes) - 1

\* A step that delivered a fix to a mounted hook, and the callback and the
\* location it was delivered with.
FixStep == lastEvent' = "fix" /\ mounted
FixHandler == Head(inflight)
FixLongitude == currentLocation'.v

\* C1: whenever nearestNodeIndex is non-null, the exposed nextNodeIndex is
\* nearestNodeIndex + 1 clamped to the last index of the current waypoint
\* list, and is a valid index of that list.
C1_NextIsClampedSuccessor ==
    nearestNodeIndex # Null =>
        /\ nextNodeIndex = Num(Min(nearestNodeIndex.v + 1, LastIndex(pathNodes)))
        /\ nextNodeIndex.v \in 0..LastIndex(pathNodes)

\* C2: arriveAtDestination is true only if the exposed nextNodeIndex is the
\* last index of the current waypoint list and the exposed distance is
\* below the arrival threshold.
C2_DestinationOnlyAtLast ==
    arriveAtDestination =>
        /\ nextNodeIndex = Num(LastIndex(pathNodes))
        /\ distance < 15

\* C3: every fix processed with a non-empty waypoint list sets
\* arrivednextNode to exactly (distance to the waypoint at nextIndex < 15),
\* strictly, and arriveAtDestination to exactly (nextIndex = lastIndex and
\* arrivednextNode).
C3_ArrivalFlagsOfTheFix ==
    [][ (FixStep /\ Len(FixHandler.pathNodes) > 0) =>
          LET nodes == FixHandler.pathNodes
              nextIndex == Min(nearestNodeIndex'.v + 1, LastIndex(nodes))
              toNext == Abs(nodes[nextIndex + 1].longitude - FixLongitude)
          IN  /\ arrivednextNode' = (toNext < 15)
              /\ arriveAtDestination' =
                     (nextIndex = LastIndex(nodes) /\ arrivednextNode')
      ]_vars

\* C3 witness: a fix exactly 15 m from the last waypoint was processed and
\* is not an arrival.
C3_Witness ==
    /\ lastEvent = "fix"
    /\ mounted
    /\ distance = 15
    /\ ~arrivednextNode
    /\ ~arriveAtDestination
    /\ nearestNodeIndex = Num(1)

\* C4: for every fix processed with a non-empty waypoint list, the
\* published relativeBearing is normalizeBearingDifference(bearingToNext -
\* knownHeading) for the heading known after that same update, and 0 only
\* when no heading is known.
C4_BearingUsesHeadingOfTheFix ==
    [][ (FixStep /\ Len(FixHandler.pathNodes) > 0) =>
          LET nodes == FixHandler.pathNodes
              nextIndex == Min(nearestNodeIndex'.v + 1, LastIndex(nodes))
              target == nodes[nextIndex + 1].longitude
              bearingToNext == IF target > FixLongitude THEN 90
                               ELSE IF target < FixLongitude THEN 270 ELSE 0
              delta == bearingToNext - userHeading'.v
              normalized == IF delta > 180 THEN delta - 360
                            ELSE IF delta < -180 THEN delta + 360 ELSE delta
          IN  relativeBearing' =
                  (IF userHeading' # Null THEN normalized ELSE 0)
      ]_vars

\* C5: a step changes userHeading only to a non-negative number, and once a
\* heading is known it never reverts to unknown.
C5_HeadingIsSticky ==
    [][ /\ (userHeading' = userHeading
              \/ (IsNum(userHeading') /\ userHeading'.v >= 0))
        /\ (userHeading # Null => userHeading' # Null)
      ]_vars

\* C6: a fix delivered while the engine is disabled or the waypoint list is
\* empty changes no field of the published navigation state.
C6_NoPublicationAfterDisable ==
    [][ (FixStep /\ (~enabled \/ Len(pathNodes) = 0)) => UNCHANGED navState
      ]_vars

\* C7: while the engine stays enabled with the same non-empty waypoint
\* list, no step (fix, heading change, error, re-render) calls clearWatch
\* or watchPosition.
C7_OneSubscriptionPerPeriod ==
    [][ ( /\ mounted /\ enabled /\ Len(pathNodes) > 0
          /\ mounted' /\ enabled' /\ pathNodes' = pathNodes )
        => geoCalls' = <<>>
      ]_vars

\* C8: at most one upstream subscription is active; none is active while
\* enabled is false, the waypoint list is empty or the hook is unmounted;
\* watchIdRef is non-null exactly when a subscription is active, and then
\* holds its id.
C8_AtMostOneSubscription ==
    /\ Cardinality(subscriptions) <= 1
    /\ (~enabled \/ Len(pathNodes) = 0 \/ ~mounted) => subscriptions = {}
    /\ (watchIdRef # Null) <=> (subscriptions # {})
    /\ \A s \in subscriptions : watchIdRef = Num(s.id)

\* C8 witness: a subscription was cleared and created again in one step,
\* and exactly that one is active.
C8_Witness ==
    /\ geoCalls = <<"clearWatch", "watchPosition">>
    /\ Cardinality(subscriptions) = 1
    /\ watchIdRef # Null

\* C9: a fix processed while the waypoint list is empty sets the
\* instruction to 'No path nodes available' and leaves every other field of
\* the navigation state as it was.
C9_EmptyListTouchesOnlyInstruction ==
    [][ (FixStep /\ Len(pathNodes) = 0) =>
          /\ movementInstruction' = "No path nodes available"
          /\ UNCHANGED <<currentLocation, userHeading, nearestNodeIndex,
                         distance, relativeBearing, arrivednextNode,
                         arriveAtDestination>>
      ]_vars

\* C10: a location error changes only the instruction text (to 'Location
\* error: ' and the message), and the subscription stays active: clearWatch
\* is not called.
C10_ErrorTouchesOnlyInstruction ==
    [][ (lastEvent' = "error") =>
          /\ \E message \in ErrorMessages :
                 movementInstruction' = "Location error: " \o message
          /\ UNCHANGED <<currentLocation, userHeading, nearestNodeIndex,
                         distance, relativeBearing, arrivednextNode,
                         arriveAtDestination>>
          /\ subscriptions' # {}
          /\ \A i \in 1..Len(geoCalls') : geoCalls'[i] # "clearWatch"
      ]_vars

----------------------------------------------------------------------------
(* Claims C11 - C20 *)

\* The navigation state of a freshly created engine.
EmptyNav ==
    [currentLocation |-> Null, nearestNodeIndex |-> Null, distance |-> 0,
     relativeBearing |-> 0, userHeading |-> Null,
     movementInstruction |-> "Initializing navigation...",
     arrivednextNode |-> FALSE, arriveAtDestination |-> FALSE]

\* C11: the destination flag is not sticky: every processed fix whose
\* distance to its target waypoint is 15 m or more, or whose next index is
\* not the last, leaves arriveAtDestination false, whatever it was before.
C11_DestinationFlagNotSticky ==
    [][ (FixStep /\ Len(FixHandler.pathNodes) > 0) =>
          LET nodes == FixHandler.pathNodes
              nextIndex == Min(nearestNodeIndex'.v + 1, LastIndex(nodes))
              toNext == Abs(nodes[nextIndex + 1].longitude - FixLongitude)
          IN  (toNext >= 15 \/ nextIndex # LastIndex(nodes))
                  => ~arriveAtDestination'
      ]_vars

\* C11 witness: the flag was true before the last fix, and that fix, 15 m
\* or more from its target, set it back to false.
C11_Witness ==
    /\ lastEvent = "fix"
    /\ mounted
    /\ arrivedBefore
    /\ ~arriveAtDestination
    /\ distance >= 15

\* C12: a fix delivered to the callback of the current subscription
\* publishes exactly the state a brand-new engine with the same waypoint
\* list and the same retained heading would publish for it: no field other
\* than the known heading depends on what happened before.
C12_MemorylessRecompute ==
    [][ ( /\ FixStep /\ enabled /\ Len(pathNodes) > 0
          /\ FixHandler = Handler(pathNodes, userHeading) ) =>
          \E heading \in FixHeadings :
              Nav' = handleLocationUpdate(
                         Handler(pathNodes, userHeading),
                         [longitude |-> FixLongitude, heading |-> heading],
                         [EmptyNav EXCEPT !.userHeading = userHeading])
      ]_vars

\* C12 witness: the engine processed a fix, was disabled, was enabled again
\* with the same list, and has just processed a fix of the new subscription.
C12_Witness ==
    /\ roundTrip = "refreshed"
    /\ lastEvent = "fix"
    /\ mounted
    /\ enabled
    /\ currentLocation # Null

StartsWith(s, prefix) ==
    Len(s) >= Len(prefix) /\ SubSeq(s, 1, Len(prefix)) = prefix

EndsWith(s, suffix) ==
    Len(s) >= Len(suffix)
        /\ SubSeq(s, Len(s) - Len(suffix) + 1, Len(s)) = suffix

Contains(s, part) ==
    \E i \in 1..(Len(s) - Len(part) + 1) :
        SubSeq(s, i, i + Len(part) - 1) = part

ArrivalMessage == "You have reached the waypoint"

\* The target of a generated instruction.
Target == pathNodes[1]

\* C13: a distance below 15 m gives exactly the arrival message whatever the
\* relative bearing, custom instruction, landmark, floor and indoor flag
\* are; an update that sets arriveAtDestination publishes that message.
C13_ArrivalMessageOverrides ==
    /\ (lastEvent = "generated" /\ distance < 15) =>
           movementInstruction = ArrivalMessage
    /\ (lastEvent = "updated" /\ arriveAtDestination) =>
           movementInstruction = ArrivalMessage

C13_Witness ==
    /\ lastEvent = "generated"
    /\ distance = 14
    /\ relativeBearing = 90
    /\ Target.instructionText # ""
    /\ Target.hasLandmark
    /\ Target.hasFloor
    /\ Target.isIndoor
    /\ movementInstruction = ArrivalMessage

\* The base phrase the bearing bands prescribe.
BandPhrase(r) ==
    IF r < -45 THEN "Turn left"
    ELSE IF r < -15 THEN "Slight left"
    ELSE IF r <= 15 THEN "Continue straight"
    ELSE IF r <= 45 THEN "Slight right"
    ELSE "Turn right"

\* C14: for distance >= 15 and a target without a custom instruction the
\* instruction opens with the phrase of the band of the relative bearing:
\* below -45 Turn left, [-45, -15) Slight left, [-15, 15] Continue straight,
\* (15, 45] Slight right, above 45 Turn right.
C14_BearingBands ==
    (lastEvent = "generated" /\ distance >= 15 /\ Target.instructionText = "")
        => StartsWith(movementInstruction, BandPhrase(relativeBearing))

C14_Witness ==
    /\ lastEvent = "generated"
    /\ distance >= 15
    /\ Target.instructionText = ""
    /\ relativeBearing = 45
    /\ StartsWith(movementInstruction, "Slight right")

BasePhrases ==
    {"Turn left", "Slight left", "Continue straight", "Slight right",
     "Turn right"}

\* C15: for distance >= 15 and a target with a non-empty custom instruction
\* the instruction starts with that text and contains none of the five
\* bearing phrases, for every relative bearing.
C15_OverrideReplaces ==
    (lastEvent = "generated" /\ distance >= 15 /\ Target.instructionText # "")
        => /\ StartsWith(movementInstruction, Target.instructionText)
           /\ \A phrase \in BasePhrases :
                  ~Contains(movementInstruction, phrase)

C15_Witness ==
    /\ lastEvent = "generated"
    /\ distance = 111
    /\ relativeBearing = 90
    /\ Target.instructionText = "Take the stairs"
    /\ StartsWith(movementInstruction, "Take the stairs")

\* Distance from the located position to waypoint i (1-based).
DistanceTo(i) ==
    calculateDistance(0, currentLocation.v, 0, pathNodes[i].longitude)

\* C16: findNearestNode gives null for an empty list, 0 for a single
\* waypoint, and otherwise the lowest index among the waypoints at minimum
\* distance from the location.
C16_NearestLowestIndex ==
    lastEvent = "located" =>
        IF Len(pathNodes) = 0 THEN nearestNodeIndex = Null
        ELSE /\ IsNum(nearestNodeIndex)
             /\ nearestNodeIndex.v + 1 \in 1..Len(pathNodes)
             /\ \A i \in 1..Len(pathNodes) :
                    DistanceTo(nearestNodeIndex.v + 1) <= DistanceTo(i)
             /\ \A i \in 1..nearestNodeIndex.v :
                    DistanceTo(i) > DistanceTo(nearestNodeIndex.v + 1)
             /\ Len(pathNodes) = 1 => nearestNodeIndex = Num(0)

C16_Witness ==
    /\ lastEvent = "located"
    /\ Len(pathNodes) = 3
    /\ \E i, j \in 1..Len(pathNodes) :
           /\ i < j
           /\ DistanceTo(i) = DistanceTo(j)
           /\ \A k \in 1..Len(pathNodes) : DistanceTo(i) <= DistanceTo(k)
           /\ nearestNodeIndex = Num(i - 1)

C19_DiscardedAtSessionEnd ==
    /\ Nav = EmptyNav
    /\ nextNodeIndex = Null
    /\ [][ ( /\ mounted /\ enabled /\ Len(pathNodes) > 0
             /\ (~enabled' \/ Len(pathNodes') = 0) ) =>
               /\ distance' = 0
               /\ nearestNodeIndex' = Null
               /\ nextNodeIndex' = Null
               /\ movementInstruction' = "Initializing navigation..."
               /\ ~arrivednextNode'
               /\ ~arriveAtDestination'
         ]_vars

\* The instruction ends with the suffix for one of the multiples of ten
\* nearest to the distance.
EndsWithNearestTen ==
    \E n \in (distance - 5)..(distance + 5) :
        /\ n % 10 = 0
        /\ 2 * Abs(n - distance) <= 10
        /\ EndsWith(movementInstruction, " in " \o ToString(n) \o "m")

EndsWithMetres ==
    EndsWith(movementInstruction, " in " \o ToString(distance) \o "m")

\* C18 as stated: the suffix is ' in <n>m' with n the nearest 10 m above
\* 100 m and the distance in metres for 0 < distance <= 100; no suffix at
\* distance 0.
C18_SuffixAsStated ==
    lastEvent = "generated" =>
        /\ distance > 100 => EndsWithNearestTen
        /\ (0 < distance /\ distance <= 100) => EndsWithMetres
        /\ distance = 0 => ~Contains(movementInstruction, " in ")

\* C18 amended: the per-metre suffix applies for 15 <= distance <= 100;
\* below 15 m the instruction is the arrival message without a suffix.
C18_SuffixFromThreshold ==
    lastEvent = "generated" =>
        /\ distance > 100 => EndsWithNearestTen
        /\ (15 <= distance /\ distance <= 100) => EndsWithMetres
        /\ distance < 15 => ~Contains(movementInstruction, " in ")

C18_Witness ==
    /\ lastEvent = "generated"
    /\ distance = 100
    /\ EndsWith(movementInstruction, " in 100m")

\* C20: for distance >= 15 the instruction is the custom instruction or the
\* base phrase, then ' toward <landmark>' iff the target has a landmark,
\* then ' (Floor <floor>)' iff the target is indoor and has a floor, then
\* the distance suffix.
C20_CompositionOrder ==
    (lastEvent = "generated" /\ distance >= 15) =>
        \E n \in 15..(distance + 5) :
            movementInstruction =
                (IF Target.instructionText # "" THEN Target.instructionText
                 ELSE BandPhrase(relativeBearing))
                \o (IF Target.hasLandmark
                    THEN " toward " \o Target.landmarkName ELSE "")
                \o (IF Target.isIndoor /\ Target.hasFloor
                    THEN " (Floor " \o ToString(Target.floor) \o ")" ELSE "")
                \o " in " \o ToString(n) \o "m"

C20_Witness ==
    /\ lastEvent = "generated"
    /\ distance = 111
    /\ movementInstruction =
           "Take the stairs toward Library (Floor 0) in 110m"

----------------------------------------------------------------------------
(* Claims C21 - C29 *)

\* C21: normalizeBearingDifference maps every delta of [-360, 360] into
\* [-180, 180] by at most one correction of 360, leaves 180 and -180
\* unchanged, and applied to its own result changes nothing.
C21_NormalizeOnceIdempotent ==
    [][ lastEvent' \in {"normalized", "renormalized"} =>
          /\ relativeBearing' >= -180
          /\ relativeBearing' <= 180
          /\ relativeBearing' \in {relativeBearing, relativeBearing - 360,
                                   relativeBearing + 360}
          /\ relativeBearing \in {-180, 180} =>
                 relativeBearing' = relativeBearing
          /\ lastEvent' = "renormalized" => relativeBearing' = relativeBearing
      ]_vars

C21_Witness ==
    /\ lastEvent = "renormalized"
    /\ relativeBearing = 180

\* C22: the published relativeBearing lies in [-180, 180] in every state
\* (the reported headings lie in [0, 360] or are rejected); it is 0 in the
\* initial state and after every fix whose update had no heading to
\* compute with.
C22_RelativeBearingInRange ==
    /\ relativeBearing = 0
    /\ [][ /\ relativeBearing' >= -180
           /\ relativeBearing' <= 180
           /\ ( /\ FixStep
                /\ Len(FixHandler.pathNodes) > 0
                /\ FixHandler.userHeading = Null ) => relativeBearing' = 0
         ]_vars

\* A fix computed with heading 360 and a target due east: the difference
\* 90 - 360 is corrected to 90.
C22_Witness ==
    /\ lastEvent = "fix"
    /\ mounted
    /\ userHeading = Num(360)
    /\ relativeBearing = 90

\* Longitude of the waypoint an update aimed at.
TargetLongitude == pathNodes[nextNodeIndex.v + 1].longitude

C25_SuffixAlwaysPresent ==
    lastEvent = "generated" =>
        /\ distance >= 15 =>
               \E n \in 15..(distance + 5) :
                   EndsWith(movementInstruction, " in " \o ToString(n) \o "m")
        /\ distance < 15 =>
               /\ movementInstruction #
                      ComposeInstruction(relativeBearing, distance, Target)
               /\ ~Contains(movementInstruction, " in ")

C25_Witness ==
    /\ lastEvent = "generated"
    /\ distance = 15
    /\ EndsWith(movementInstruction, " in 15m")

\* C26: while the screen shows an engine that reports arriveAtDestination,
\* navigation is inactive, the engine is disabled and no location watch is
\* active; the final-arrival trigger opens the modal at most once, and
\* hasTriggeredFinalArrival never returns to false.
C26_ArrivalDeactivatesOnce ==
    /\ []( (mounted /\ arriveAtDestination) =>
               (~navigationActive /\ ~enabled /\ subscriptions = {}) )
    /\ [](finalArrivalOpenings <= 1)
    /\ [][hasTriggeredFinalArrival => hasTriggeredFinalArrival']_vars

\* The fix that arrives within 5 m of the last waypoint: alert and modal are
\* up, navigation is inactive.
C26_Witness ==
    /\ mounted
    /\ lastEvent = "fix"
    /\ arriveAtDestination
    /\ ~navigationActive
    /\ showFinalArrivalModal
    /\ hasTriggeredFinalArrival
    /\ finalArrivalOpenings = 1
    /\ subscriptions = {}

\* C27: once no fetch is pending the stored nodes and the error belong to
\* the (valid) routeId requested last, whichever response arrived last; and the
\* three lists always come from one fetched list sorted ascending by order.
C27_LatestRequestWins ==
    /\ (Len(pending) = 0 /\ routeId # "") =>
           /\ \A i \in 1..Len(routePathNodes) :
                  routePathNodes[i].routeId = routeId
           /\ \A id \in RouteIds \ {routeId} :
                  error # "No path nodes found for route " \o id
    /\ \A i, j \in 1..Len(routePathNodes) :
           i < j => routePathNodes[i].order <= routePathNodes[j].order
    /\ Len(coordinates) = Len(routePathNodes)
    /\ \A i \in 1..Len(routePathNodes) :
           /\ coordinates[i].order = routePathNodes[i].order
           /\ coordinates[i].longitude = routePathNodes[i].longitude
    /\ \A k \in 1..Len(instructions) :
           \E i \in 1..Len(routePathNodes) :
               /\ instructions[k].order = routePathNodes[i].order
               /\ IsInstruction(routePathNodes[i])
    /\ Len(instructions) =
           Cardinality({i \in 1..Len(routePathNodes) :
                           IsInstruction(routePathNodes[i])})

\* The routes of the settled fetch that end at the selected building.
Matching ==
    { i \in 1..Len(allRoutes.routes) :
        allRoutes.routes[i].endBuilding = resolveCall.selectedBuildingId }

C29_BoundedNewestFirst ==
    /\ [](Len(logs) <= 200)
    /\ [](\A i, j \in 1..Len(logs) :
              i < j => logs[i].timestamp > logs[j].timestamp)
    /\ [][ IF logClock' = logClock + 1
           THEN /\ logs'[1].timestamp = logClock
                /\ Tail(logs') = IF Len(logs) < 200 THEN logs
                                 ELSE SubSeq(logs, 1, 199)
           ELSE logs' = <<>>
         ]_vars

\* A full log that has dropped its oldest entries.
C29_Witness ==
    /\ Len(logs) = 200
    /\ logs[200].timestamp = 2
    /\ logs[1].timestamp = 201

====
